---- MODULE Spec2Model ----
(***************************************************************************)
(* Structure NBT generator: the palette builder (StructureBuilder of       *)
(* flip-flop.py / camera.py) and the minimal NBT writer of flip-flop.py.   *)
(*                                                                         *)
(* A Python str handled by the builder is the sequence of its code points. *)
(* A dict is the sequence of its (key, value) items in insertion order,    *)
(* keys pairwise distinct.  Python ints are unbounded; the model keeps     *)
(* them as integers and bounds the inputs.                                 *)
(***************************************************************************)
EXTENDS Integers, Sequences, FiniteSets, TLC

\* ---------------------------------------------------------------- bounds
MaxBlocks == 3
MaxBuilds == 2
MaxCoord == 1
MaxItems == 2

\* ------------------------------------------------------ program constants
DEFAULT_DATA_VERSION == 3700
Sentinel == 1000000000

\* ------------------------------------------------------------ str helpers
RECURSIVE StrLess(_, _)
\* Python's str "<": lexicographic by code point, a proper prefix is smaller
StrLess(a, b) ==
    IF b = <<>> THEN FALSE
    ELSE IF a = <<>> THEN TRUE
    ELSE IF Head(a) # Head(b) THEN Head(a) < Head(b)
    ELSE StrLess(Tail(a), Tail(b))

\* tuple "<" on (key, value) items
ItemLess(p, q) ==
    IF p[1] # q[1] THEN StrLess(p[1], q[1]) ELSE StrLess(p[2], q[2])

RECURSIVE InsertItem(_, _)
InsertItem(sortedItems, it) ==
    IF sortedItems = <<>> THEN <<it>>
    ELSE IF ItemLess(it, Head(sortedItems)) THEN <<it>> \o sortedItems
    ELSE <<Head(sortedItems)>> \o InsertItem(Tail(sortedItems), it)

RECURSIVE sorted(_)
\* sorted(properties.items())
sorted(items) ==
    IF items = <<>> THEN <<>>
    ELSE InsertItem(sorted(SubSeq(items, 1, Len(items) - 1)), items[Len(items)])

\* ----------------------------------------------------- StructureBuilder
VARIABLES
    palette,        \* _palette: list of palette entries
    palette_index,  \* _palette_index: dict BlockStateKey -> int
    blocks,         \* _blocks: list of block entries (the objects themselves)
    min_x, min_y, min_z,
    max_x, max_y, max_z,
    docs,           \* roots returned by build(), as the caller holds them
    seen,           \* what each returned root contained when it was returned
    offset,         \* (dx, dy, dz) used by the last translate_to_origin
    builds_in_row,  \* number of build() calls since the last add_block
    calls           \* arguments of the add_block calls made so far

builderVars == <<palette, palette_index, blocks, min_x, min_y, min_z,
                 max_x, max_y, max_z, docs, seen, offset, builds_in_row, calls>>

KeyUnsorted(name, properties) ==
    [name |-> name, properties |-> properties]

\* key = BlockStateKey(name=name, properties=tuple(sorted(properties.items())))
BlockStateKey(name, properties) ==
    [name |-> name, properties |-> sorted(properties)]

PaletteEntryNameOnly(name, properties) ==
    [Name |-> name, Properties |-> <<>>]

\* palette_entry: 'Name', and 'Properties' only when properties is non-empty
\* (Properties = <<>> stands for the absent key)
PaletteEntry(name, properties) ==
    [Name |-> name, Properties |-> properties]

NextIndexOffByOne(pal) == Len(pal) + 1

\* self._palette_index[key] = len(self._palette)
NextIndex(pal) == Len(pal)

\* block_entry: 'pos', 'state', and 'nbt' when given (<<>> = no nbt)
BlockEntry(x, y, z, state, nbt) ==
    [pos |-> <<x, y, z>>, state |-> state, nbt |-> nbt]

RECURSIVE AppendBlockOverwriting(_, _)
AppendBlockOverwriting(blks, entry) ==
    IF blks = <<>> THEN <<entry>>
    ELSE IF Head(blks).pos = entry.pos THEN AppendBlockOverwriting(Tail(blks), entry)
    ELSE <<Head(blks)>> \o AppendBlockOverwriting(Tail(blks), entry)

\* self._blocks.append(block_entry)
AppendBlock(blks, entry) == Append(blks, entry)

Min(a, b) == IF b < a THEN b ELSE a
Max(a, b) == IF b > a THEN b ELSE a

IsEmptyBoxNever(mnx, mxx) == FALSE

\* if self._max_x < self._min_x: nothing was placed
IsEmptyBox(mnx, mxx) == mxx < mnx

\* size()
size(mnx, mny, mnz, mxx, mxy, mxz) ==
    IF IsEmptyBox(mnx, mxx) THEN <<0, 0, 0>>
    ELSE <<mxx - mnx + 1, mxy - mny + 1, mxz - mnz + 1>>

TranslatedRebuilt(blks, dx, dy, dz) ==
    [i \in DOMAIN blks |->
        [pos |-> <<blks[i].pos[1] + dx, blks[i].pos[2] + dy, blks[i].pos[3] + dz>>,
         state |-> blks[i].state, nbt |-> <<>>]]

\* the loop of translate_to_origin: every block entry gets a new 'pos'
Translated(blks, dx, dy, dz) ==
    [i \in DOMAIN blks |->
        [blks[i] EXCEPT !.pos = <<@[1] + dx, @[2] + dy, @[3] + dz>>]]

MinAfterTranslateKept(mn) == mn

\* self._min_x = 0 (and y, z) at the end of translate_to_origin
MinAfterTranslate(mn) == 0

\* ListTag(TAG_Compound, self._blocks): a new list holding the same objects;
\* an object is named by its index in _blocks (entries are never removed)
BlockRefs(blks) == [i \in DOMAIN blks |-> i]

\* the document a caller reads through a returned root
Deref(root, blks) ==
    [size |-> root.size,
     palette |-> root.palette,
     blocks |-> [i \in DOMAIN root.blocks |-> blks[root.blocks[i]]],
     entities |-> root.entities,
     DataVersion |-> root.DataVersion]

InitBuilder ==
    /\ palette = <<>>
    /\ palette_index = <<>>
    /\ blocks = <<>>
    /\ min_x = Sentinel /\ min_y = Sentinel /\ min_z = Sentinel
    /\ max_x = -Sentinel /\ max_y = -Sentinel /\ max_z = -Sentinel
    /\ docs = <<>>
    /\ seen = <<>>
    /\ offset = <<0, 0, 0>>
    /\ builds_in_row = 0
    /\ calls = <<>>

\* add_block(x, y, z, name, properties, nbt)
add_block(x, y, z, name, properties, nbt) ==
    /\ Len(blocks) < MaxBlocks
    /\ LET key == BlockStateKey(name, properties)
           isNew == key \notin DOMAIN palette_index
           index1 == IF isNew THEN palette_index @@ (key :> NextIndex(palette))
                     ELSE palette_index
           palette1 == IF isNew THEN Append(palette, PaletteEntry(name, properties))
                       ELSE palette
       IN /\ palette_index' = index1
          /\ palette' = palette1
          /\ blocks' = AppendBlock(blocks, BlockEntry(x, y, z, index1[key], nbt))
    \* _track_bounds
    /\ min_x' = Min(min_x, x) /\ min_y' = Min(min_y, y) /\ min_z' = Min(min_z, z)
    /\ max_x' = Max(max_x, x) /\ max_y' = Max(max_y, y) /\ max_z' = Max(max_z, z)
    /\ calls' = Append(calls, [pos |-> <<x, y, z>>, name |-> name,
                               properties |-> properties, nbt |-> nbt])
    /\ builds_in_row' = 0
    /\ UNCHANGED <<docs, seen, offset>>

\* build(data_version): translate_to_origin(), size(), assemble the root
build(data_version) ==
    /\ Len(docs) < MaxBuilds
    /\ IF IsEmptyBox(min_x, max_x)
       THEN /\ UNCHANGED <<blocks, min_x, min_y, min_z, max_x, max_y, max_z>>
            /\ offset' = <<0, 0, 0>>
       ELSE LET dx == -min_x
                dy == -min_y
                dz == -min_z
            IN /\ blocks' = Translated(blocks, dx, dy, dz)
               /\ max_x' = max_x + dx /\ max_y' = max_y + dy /\ max_z' = max_z + dz
               /\ min_x' = MinAfterTranslate(min_x)
               /\ min_y' = MinAfterTranslate(min_y)
               /\ min_z' = MinAfterTranslate(min_z)
               /\ offset' = <<dx, dy, dz>>
    /\ LET root == [size |-> size(min_x', min_y', min_z', max_x', max_y', max_z'),
                    palette |-> palette,
                    blocks |-> BlockRefs(blocks'),
                    entities |-> <<>>,
                    DataVersion |-> data_version]
       IN /\ docs' = Append(docs, root)
          /\ seen' = Append(seen, Deref(root, blocks'))
    /\ builds_in_row' = builds_in_row + 1
    /\ UNCHANGED <<palette, palette_index, calls>>

\* ------------------------------- StructureBuilder of png_to_redstone.py
VARIABLES
    png_palette,        \* _palette
    png_palette_index,  \* _palette_index
    png_blocks,         \* _blocks: list of block entries, 'pos' and 'state'
    png_seen            \* what each returned root contained when it was returned

pngVars == <<png_palette, png_palette_index, png_blocks, png_seen>>

\* min(... for b in self._blocks), max(... for b in self._blocks)
min(S) == CHOOSE m \in S : \A n \in S : m <= n
max(S) == CHOOSE m \in S : \A n \in S : m >= n

InitPng ==
    /\ png_palette = <<>>
    /\ png_palette_index = <<>>
    /\ png_blocks = <<>>
    /\ png_seen = <<>>

\* add_block(x, y, z, name, properties): no nbt, no bounds kept
png_add_block(x, y, z, name, properties) ==
    /\ Len(png_blocks) < MaxBlocks
    /\ LET key == [name |-> name, properties |-> sorted(properties)]
           isNew == key \notin DOMAIN png_palette_index
           palette_entry == [Name |-> name, Properties |-> properties]
           index1 == IF isNew THEN png_palette_index @@ (key :> Len(png_palette))
                     ELSE png_palette_index
           block_entry == [pos |-> <<x, y, z>>, state |-> index1[key]]
       IN /\ png_palette_index' = index1
          /\ png_palette' = IF isNew THEN Append(png_palette, palette_entry)
                            ELSE png_palette
          /\ png_blocks' = Append(png_blocks, block_entry)
    /\ UNCHANGED png_seen

\* build(data_version): the minimum is taken over the stored blocks, the
\* blocks are moved by it, and the size is the maximum after the move plus 1
png_build(data_version) ==
    /\ Len(png_seen) < MaxBuilds
    /\ IF png_blocks = <<>>
       THEN /\ UNCHANGED png_blocks
            /\ png_seen' = Append(png_seen,
                   [size |-> <<0, 0, 0>>, palette |-> png_palette, blocks |-> <<>>,
                    entities |-> <<>>, DataVersion |-> data_version])
       ELSE LET mn == [a \in 1 .. 3 |->
                         min({png_blocks[i].pos[a] : i \in DOMAIN png_blocks})]
                moved == [i \in DOMAIN png_blocks |->
                            [png_blocks[i] EXCEPT
                               !.pos = [a \in 1 .. 3 |-> png_blocks[i].pos[a] - mn[a]]]]
                mx == [a \in 1 .. 3 |-> max({moved[i].pos[a] : i \in DOMAIN moved})]
            IN /\ png_blocks' = moved
               /\ png_seen' = Append(png_seen,
                      [size |-> <<mx[1] + 1, mx[2] + 1, mx[3] + 1>>,
                       palette |-> png_palette, blocks |-> moved,
                       entities |-> <<>>, DataVersion |-> data_version])
    /\ UNCHANGED <<png_palette, png_palette_index>>

\* ------------------------------------------------------ minimal NBT writer
(***************************************************************************)
(* Values handed to the writer:                                            *)
(*   [kind |-> "int", lo, hi]   an int (IntTag or int) of value            *)
(*                              lo + hi * 2^32, lo a signed 32-bit number  *)
(*   [kind |-> "str", s]        a str (StringTag or str); s is a sequence  *)
(*                              of runs <<code point, count>>              *)
(*   [kind |-> "list", element_tag_id, items]      a ListTag               *)
(*   [kind |-> "compound", entries]  a CompoundTag or dict, entries the    *)
(*                              sequence of <<name, value>> items          *)
(*   [kind |-> "none"]          None, a value of no supported type         *)
(* Written bytes are a sequence of chunks <<pattern, count>>: the byte     *)
(* sequence pattern repeated count times.                                  *)
(* A write is [err, out]: the exception raised ("none" if none) and the    *)
(* chunks written to the buffer up to that point.                          *)
(***************************************************************************)
TAG_End == 0
TAG_Byte == 1
TAG_Int == 3
TAG_String == 8
TAG_List == 9
TAG_Compound == 10

PyInt(n) == [kind |-> "int", lo |-> n, hi |-> 0]
PyStr(s) == [kind |-> "str", s |-> s]
ListTag(element_tag_id, values) ==
    [kind |-> "list", element_tag_id |-> element_tag_id, items |-> values]
CompoundTag(entries) == [kind |-> "compound", entries |-> entries]
PyNone == [kind |-> "none"]

Ok(chunks) == [err |-> "none", out |-> chunks]
Raise(e) == [err |-> e, out |-> <<>>]
\* statement sequencing: the second write happens only if the first returned
Then(r1, r2) ==
    IF r1.err # "none" THEN r1 ELSE [err |-> r2.err, out |-> r1.out \o r2.out]

Byte(b) == << <<b>>, 1 >>

\* struct.pack('>B', v)
pack_B(v) ==
    IF v >= 0 /\ v <= 255 THEN Ok(<<Byte(v)>>) ELSE Raise("struct.error(B)")

\* struct.pack('>h', v): signed 16-bit, big-endian two's complement
pack_h(v) ==
    IF v >= -32768 /\ v <= 32767
    THEN LET u == IF v < 0 THEN v + 65536 ELSE v
         IN Ok(<<Byte(u \div 256), Byte(u % 256)>>)
    ELSE Raise("struct.error(h)")

\* struct.pack('>i', v): signed 32-bit, big-endian two's complement
pack_i(n) ==
    IF n.hi = 0
    THEN LET v == n.lo
             u == IF v < 0 THEN v + 2147483647 + 1 ELSE v   \* low 31 bits
             top == IF v < 0 THEN 128 ELSE 0
         IN Ok(<<Byte(top + (u \div 16777216)), Byte((u \div 65536) % 256),
                 Byte((u \div 256) % 256), Byte(u % 256)>>)
    ELSE Raise("struct.error(i)")

_write_short(value) == pack_h(value)

_write_int(value) == pack_i(value)

\* UTF-8 bytes of one code point
Utf8(cp) ==
    IF cp < 128 THEN <<cp>>
    ELSE IF cp < 2048 THEN <<192 + (cp \div 64), 128 + (cp % 64)>>
    ELSE IF cp < 65536
         THEN <<224 + (cp \div 4096), 128 + ((cp \div 64) % 64), 128 + (cp % 64)>>
    ELSE <<240 + (cp \div 262144), 128 + ((cp \div 4096) % 64),
           128 + ((cp \div 64) % 64), 128 + (cp % 64)>>

IsSurrogate(cp) == cp >= 55296 /\ cp <= 57343

\* s.encode('utf-8')
encode_utf8(s) == [i \in DOMAIN s |-> <<Utf8(s[i][1]), s[i][2]>>]

RECURSIVE ByteLen(_)
\* len(data)
ByteLen(chunks) ==
    IF chunks = <<>> THEN 0
    ELSE (Len(Head(chunks)[1]) * Head(chunks)[2]) + ByteLen(Tail(chunks))

\* _write_string_payload(buf, s)
_write_string_payload(s) ==
    IF \E i \in DOMAIN s : IsSurrogate(s[i][1])
    THEN Raise("UnicodeEncodeError")
    ELSE LET data == encode_utf8(s)
         IN Then(_write_short(ByteLen(data)), Ok(data))

\* ---- int(value) and str(value), as _write_payload applies them
IsDigit(cp) == cp >= 48 /\ cp <= 57
Int32Max == 2147483647

RECURSIVE DigitsValue(_, _)
\* value of a run sequence of decimal digits after the prefix of value acc;
\* a value above Int32Max is only reported as out of the 32-bit range (hi = 1)
DigitsValue(s, acc) ==
    IF s = <<>> THEN acc
    ELSE LET d == Head(s)[1] - 48
             rest == IF Head(s)[2] = 1 THEN Tail(s)
                     ELSE <<<<Head(s)[1], Head(s)[2] - 1>>>> \o Tail(s)
         IN IF acc.hi # 0 \/ acc.lo > (Int32Max - d) \div 10
            THEN [kind |-> "int", lo |-> 0, hi |-> 1]
            ELSE DigitsValue(rest, [kind |-> "int", lo |-> (acc.lo * 10) + d, hi |-> 0])

\* int(value): [err, val]
int(value) ==
    CASE value.kind = "int" -> [err |-> "none", val |-> value]
      [] value.kind = "str" ->
            IF value.s # <<>> /\ \A i \in DOMAIN value.s : IsDigit(value.s[i][1])
            THEN [err |-> "none", val |-> DigitsValue(value.s, PyInt(0))]
            ELSE [err |-> "ValueError(int)", val |-> PyInt(0)]
      [] value.kind \in {"list", "compound", "none"} ->
            [err |-> "TypeError(int)", val |-> PyInt(0)]

RECURSIVE Decimal(_)
\* decimal digits of n >= 0, one run per digit
Decimal(n) ==
    IF n < 10 THEN << <<48 + n, 1>> >>
    ELSE Decimal(n \div 10) \o << <<48 + (n % 10), 1>> >>

\* str(value), for the values the model hands to a String payload
str(value) ==
    CASE value.kind = "str" -> value.s
      [] value.kind = "int" /\ value.hi = 0 /\ value.lo >= 0 -> Decimal(value.lo)
      [] value.kind = "int" /\ value.hi = 0 /\ value.lo < 0 /\ value.lo > -Int32Max ->
            << <<45, 1>> >> \o Decimal(-value.lo)
      [] value.kind = "none" -> << <<78, 1>>, <<111, 1>>, <<110, 1>>, <<101, 1>> >>

\* _infer_tag_id(value): [err, id]
_infer_tag_id(value) ==
    CASE value.kind = "int" -> [err |-> "none", id |-> TAG_Int]
      [] value.kind = "str" -> [err |-> "none", id |-> TAG_String]
      [] value.kind = "list" -> [err |-> "none", id |-> TAG_List]
      [] value.kind = "compound" -> [err |-> "none", id |-> TAG_Compound]
      [] OTHER -> [err |-> "ValueError(infer)", id |-> TAG_End]

RECURSIVE _write_payload(_, _)
RECURSIVE _write_named_tag(_, _, _)
RECURSIVE WriteItems(_, _)
RECURSIVE WriteEntries(_)
RECURSIVE WriteItemsTagged(_, _)
RECURSIVE WriteEntriesReversed(_)

WriteItemsTagged(element_tag_id, items) ==
    IF items = <<>> THEN Ok(<<>>)
    ELSE Then(_write_named_tag(element_tag_id, <<>>, Head(items)),
              WriteItemsTagged(element_tag_id, Tail(items)))

\* for item in value: _write_payload(buf, value.element_tag_id, item)
WriteItems(element_tag_id, items) ==
    IF items = <<>> THEN Ok(<<>>)
    ELSE Then(_write_payload(element_tag_id, Head(items)),
              WriteItems(element_tag_id, Tail(items)))

WriteEntriesReversed(entries) ==
    IF entries = <<>> THEN Ok(<<>>)
    ELSE LET k == entries[Len(entries)][1]
             v == entries[Len(entries)][2]
             t == _infer_tag_id(v)
         IN IF t.err # "none" THEN Raise(t.err)
            ELSE Then(_write_named_tag(t.id, k, v),
                      WriteEntriesReversed(SubSeq(entries, 1, Len(entries) - 1)))

\* for k, v in items: t_id = _infer_tag_id(v); _write_named_tag(buf, t_id, k, v)
WriteEntries(entries) ==
    IF entries = <<>> THEN Ok(<<>>)
    ELSE LET k == Head(entries)[1]
             v == Head(entries)[2]
             t == _infer_tag_id(v)
         IN IF t.err # "none" THEN Raise(t.err)
            ELSE Then(_write_named_tag(t.id, k, v), WriteEntries(Tail(entries)))

\* _write_payload(buf, tag_id, value)
_write_payload(tag_id, value) ==
    IF tag_id = TAG_Int
    THEN LET n == int(value)
         IN IF n.err # "none" THEN Raise(n.err) ELSE _write_int(n.val)
    ELSE IF tag_id = TAG_String
    THEN _write_string_payload(str(value))
    ELSE IF tag_id = TAG_List
    THEN IF value.kind # "list" THEN Raise("AssertionError")
         ELSE Then(pack_B(value.element_tag_id),
              Then(_write_int(PyInt(Len(value.items))),
                   WriteItems(value.element_tag_id, value.items)))
    ELSE IF tag_id = TAG_Compound
    THEN IF value.kind # "compound" THEN Raise("AssertionError")
         ELSE Then(WriteEntries(value.entries), pack_B(TAG_End))
    ELSE Raise("ValueError(tag id)")

\* _write_named_tag(buf, tag_id, name, value)
_write_named_tag(tag_id, name, value) ==
    Then(pack_B(tag_id),
    Then(_write_string_payload(name),
         _write_payload(tag_id, value)))

\* ---- write_nbt_file
VARIABLES
    root,           \* the tree passed to write_nbt_file
    gzip_compress,  \* its flag
    file,           \* the destination path: <<>> if absent, else <<content>>
    raw,            \* what the BytesIO buffer held when the call ended
    raised,         \* the exception the call raised, "none" if it returned
    pc              \* "start" before the call, "done" after it

encVars == <<root, gzip_compress, file, raw, raised, pc>>

\* gzip.open(path, 'wb').write(data) / open(path, 'wb').write(data)
Content(data, gz) == [gzip |-> gz, data |-> data]

FileAfterStreamed(r, old, gz) == <<Content(r.out, gz)>>

\* the destination after the call: the file is opened and written only once
\* _write_named_tag has returned
FileAfter(r, old, gz) ==
    IF r.err = "none" THEN <<Content(r.out, gz)>> ELSE old

\* write_nbt_file(root, path, gzip_compress)
write_nbt_file ==
    /\ pc = "start"
    /\ LET r == _write_named_tag(TAG_Compound, <<>>, root)
       IN /\ raw' = r.out
          /\ raised' = r.err
          /\ file' = FileAfter(r, file, gzip_compress)
    /\ pc' = "done"
    /\ UNCHANGED <<root, gzip_compress>>

\* ------------------------------------------------------------------ inputs
\* labels and attribute strings, as code points
Str_empty == <<>>
Str_stone == <<115, 116, 111, 110, 101>>
Str_dropper == <<100, 114, 111, 112, 112, 101, 114>>
Str_hopper == <<104, 111, 112, 112, 101, 114>>
Str_facing == <<102, 97, 99, 105, 110, 103>>
Str_enabled == <<101, 110, 97, 98, 108, 101, 100>>
Str_up == <<117, 112>>
Str_down == <<100, 111, 119, 110>>
Str_west == <<119, 101, 115, 116>>
Str_true == <<116, 114, 117, 101>>

NoProperties == <<>>
NoNbt == <<>>
\* a block-entity compound passed as nbt (one opaque value)
SomeNbt == <<[id |-> Str_hopper]>>

\* (name, properties) arguments; the two hopper dicts hold the same items,
\* inserted in different orders
BlockStates ==
    { <<Str_stone, NoProperties>>,
      <<Str_dropper, <<<<Str_facing, Str_up>>>> >>,
      <<Str_dropper, <<<<Str_facing, Str_down>>>> >>,
      <<Str_hopper, <<<<Str_facing, Str_west>>, <<Str_enabled, Str_true>>>> >>,
      <<Str_hopper, <<<<Str_enabled, Str_true>>, <<Str_facing, Str_west>>>> >>,
      <<Str_empty, NoProperties>> }

PaletteArgs ==
    { <<bs[1], bs[2], NoNbt>> : bs \in BlockStates } \cup { <<Str_stone, NoProperties, SomeNbt>> }

\* the n-th call of a column stacks its block on the earlier ones
ColumnPosition(n) == <<0, n, 0>>

\* x on both sides of zero and beyond the initial bounds; y at or below zero
\* and z at or above it
Coords == {-MaxCoord, 0, MaxCoord, Sentinel + 1}
BoxPositions ==
    { <<x, yz[1], yz[2]>> : x \in Coords, yz \in {<<0, 0>>, <<-MaxCoord, MaxCoord>>} }

\* every box position without nbt, and one block entity at the origin
BoxArgs ==
    { <<p, NoNbt>> : p \in BoxPositions } \cup { <<<<0, 0, 0>>, SomeNbt>> }

\* arguments both builders take: every box position with stone, and a
\* hopper with two attributes at the origin
BothArgs ==
    { <<p, Str_stone, NoProperties>> : p \in BoxPositions }
        \cup { <<<<0, 0, 0>>, Str_hopper, <<<<Str_facing, Str_west>>, <<Str_enabled, Str_true>>>> >> }

DataVersions == {DEFAULT_DATA_VERSION}

\* ---- trees for the writer
Rep(cp, n) == << <<cp, n>> >>
BigInt == [kind |-> "int", lo |-> 0, hi |-> 1]

\* strings on both sides of the 2-byte length limits; 233 encodes to 2 bytes
Strings ==
    { <<>>, Rep(53, 1), Rep(97, 1), Rep(97, 32767), Rep(97, 32768),
      Rep(233, 16384), Rep(97, 65535), Rep(97, 65536) }

Scalars ==
    { PyInt(0), PyInt(-1), PyInt(Int32Max), BigInt, PyNone } \cup { PyStr(t) : t \in Strings }

\* the scalars put into lists
ScalarItems ==
    { PyInt(-1), PyNone, PyStr(Rep(53, 1)), PyStr(Rep(97, 32768)), PyStr(Rep(97, 65536)) }

CompositeItems ==
    { CompoundTag(<< <<Rep(97, 1), PyInt(5)>> >>),
      CompoundTag(<< <<Rep(97, 1), BigInt>> >>),
      ListTag(TAG_Int, <<PyInt(1)>>) }

\* str() of a list or a compound is not modelled: a String list gets scalars
ItemsFor(id) ==
    IF id = TAG_String THEN ScalarItems ELSE ScalarItems \cup CompositeItems

SeqsUpTo(S, n) == UNION { [1 .. k -> S] : k \in 0 .. n }

Lists ==
    UNION { { ListTag(id, items) : items \in SeqsUpTo(ItemsFor(id), MaxItems) } :
            id \in {TAG_Byte, TAG_Int, TAG_String, TAG_List, TAG_Compound} }

Values == Scalars \cup CompositeItems \cup Lists

Names == { Rep(97, 1), Rep(97, 32768), Rep(97, 65536) }

Roots ==
    { CompoundTag(<<>>) }
    \cup { CompoundTag(<< <<n, v>> >>) : n \in Names, v \in Values }
    \cup { CompoundTag(<< <<Rep(98, 1), w>>, <<Rep(97, 1), v>> >>) :
             w \in {PyInt(5), PyStr(Rep(97, 1))}, v \in Values }

OldContent == Content(<<Byte(TAG_Compound), Byte(0), Byte(0), Byte(TAG_End)>>, FALSE)

InitEnc ==
    /\ root \in Roots
    /\ gzip_compress \in BOOLEAN
    /\ file \in {<<>>, <<OldContent>>}
    /\ raw = <<>>
    /\ raised = "none"
    /\ pc = "start"

\* the writer is idle while the builder runs
IdleEnc ==
    /\ root = CompoundTag(<<>>)
    /\ gzip_compress = FALSE
    /\ file = <<>>
    /\ raw = <<>>
    /\ raised = "none"
    /\ pc = "start"

vars == <<builderVars, encVars, pngVars>>

Init == InitBuilder /\ IdleEnc /\ InitPng

AddBlockPalette ==
    /\ \E a \in PaletteArgs :
          LET p == ColumnPosition(Len(blocks))
          IN add_block(p[1], p[2], p[3], a[1], a[2], a[3])
    /\ UNCHANGED <<encVars, pngVars>>

AddBlockBox ==
    /\ \E a \in BoxArgs :
          add_block(a[1][1], a[1][2], a[1][3], Str_stone, NoProperties, a[2])
    /\ UNCHANGED <<encVars, pngVars>>

Build ==
    /\ \E v \in DataVersions : build(v)
    /\ UNCHANGED <<encVars, pngVars>>

\* the same add_block call made on a builder of each implementation
AddBlockBoth ==
    /\ \E a \in BothArgs :
          /\ add_block(a[1][1], a[1][2], a[1][3], a[2], a[3], NoNbt)
          /\ png_add_block(a[1][1], a[1][2], a[1][3], a[2], a[3])
    /\ UNCHANGED encVars

\* the same build call made on a builder of each implementation
BuildBoth ==
    /\ \E v \in DataVersions : build(v) /\ png_build(v)
    /\ UNCHANGED encVars

WriteNbtFile == write_nbt_file /\ UNCHANGED <<builderVars, pngVars>>

InitWriter == InitBuilder /\ InitEnc /\ InitPng

NextPalette == AddBlockPalette \/ Build
NextBounds == AddBlockBox \/ Build
NextEnc == WriteNbtFile
NextBoth == AddBlockBoth \/ BuildBoth

\* the palette under all label/attribute inputs, on a column of positions
SpecPalette == Init /\ [][NextPalette]_vars
\* the bounding box under a box of positions
SpecBounds == Init /\ [][NextBounds]_vars
\* the writer applied to one tree
SpecEnc == InitWriter /\ [][NextEnc]_vars
\* the two builders driven by the same calls
SpecBoth == Init /\ [][NextBoth]_vars

\* ------------------------------------------------------------- properties
\* the key of a call by what was passed: the label and the set of attribute
\* pairs, whatever their insertion order
CallKey(c) == <<c.name, {c.properties[i] : i \in DOMAIN c.properties}>>
EntryKey(e) == <<e.Name, {e.Properties[i] : i \in DOMAIN e.Properties}>>

\* C1: the number of palette entries equals the number of distinct
\* (label, attribute set) keys among the add_block calls made so far,
\* whatever the call order and the attribute insertion order.
C1_DedupInvariant ==
    Len(palette) = Cardinality({CallKey(calls[i]) : i \in DOMAIN calls})

\* two calls passed the same attributes in different insertion orders
C1_Witness ==
    /\ \E i, j \in DOMAIN calls :
          /\ calls[i].properties # calls[j].properties
          /\ CallKey(calls[i]) = CallKey(calls[j])
    /\ Len(palette) >= 2

InBox(doc) ==
    \A i \in DOMAIN doc.blocks : \A a \in 1 .. 3 :
        doc.blocks[i].pos[a] >= 0 /\ doc.blocks[i].pos[a] <= doc.size[a] - 1
TouchesZero(doc) ==
    \A a \in 1 .. 3 : \E i \in DOMAIN doc.blocks : doc.blocks[i].pos[a] = 0

\* C2: after add_block calls with coordinates of any sign within the signed
\* 32-bit range, the document returned by build() has every position in
\* [0, size-1] on each axis and a placement at coordinate 0 on each axis.
C2_BoundingBox ==
    (Len(seen) >= 1 /\ seen[1].blocks # <<>>) =>
        InBox(seen[1]) /\ TouchesZero(seen[1])

\* C3: a root returned by build() keeps the size, palette, placement list,
\* positions and states it had when it was returned, whatever is called later.
C3_ReturnedDocumentImmutable ==
    \A k \in DOMAIN docs : Deref(docs[k], blocks) = seen[k]

DocBody(doc) == <<doc.size, doc.palette, doc.blocks>>

\* C4: a build() that directly follows a build() returns the same size,
\* palette and placements as the one before it, and translates by zero.
C4_IdempotentTranslation ==
    builds_in_row >= 2 =>
        /\ DocBody(seen[Len(seen)]) = DocBody(seen[Len(seen) - 1])
        /\ offset = <<0, 0, 0>>

\* build() was called twice in a row on blocks that the first call moved
C4_Witness ==
    /\ builds_in_row >= 2
    /\ \E i \in DOMAIN blocks : blocks[i].pos # calls[i].pos

\* C5: under every interleaving of add_block and build, each returned
\* document has every position in [0, size-1] and touches 0 on each axis.
C5_EveryBuildInBox ==
    \A k \in DOMAIN seen :
        seen[k].blocks # <<>> => InBox(seen[k]) /\ TouchesZero(seen[k])

RECURSIVE FirstSeen(_)
\* the distinct keys of the calls, in order of first occurrence
FirstSeen(cs) ==
    IF cs = <<>> THEN <<>>
    ELSE LET prev == FirstSeen(SubSeq(cs, 1, Len(cs) - 1))
             k == CallKey(cs[Len(cs)])
         IN IF \E i \in DOMAIN prev : prev[i] = k THEN prev ELSE Append(prev, k)

\* C6: the palette lists the distinct keys in order of first occurrence, each
\* placement's state is the index of its own key, and an index once assigned
\* never changes.
C6_FirstSeenOrder ==
    /\ [](/\ [i \in DOMAIN palette |-> EntryKey(palette[i])] = FirstSeen(calls)
          /\ Len(blocks) = Len(calls)
          /\ \A i \in DOMAIN blocks :
                /\ blocks[i].state \in 0 .. (Len(palette) - 1)
                /\ EntryKey(palette[blocks[i].state + 1]) = CallKey(calls[i]))
    /\ [][/\ SubSeq(palette', 1, Len(palette)) = palette
          /\ \A k \in DOMAIN palette_index :
                k \in DOMAIN palette_index' /\ palette_index'[k] = palette_index[k]
          /\ \A i \in DOMAIN blocks : blocks'[i].state = blocks[i].state]_vars

\* stone, dropper{facing=up}, dropper{facing=down} placed in that order
C6_Witness ==
    /\ Len(calls) = 3
    /\ calls[1].name = Str_stone
    /\ calls[2].name = Str_dropper /\ calls[2].properties = <<<<Str_facing, Str_up>>>>
    /\ calls[3].name = Str_dropper /\ calls[3].properties = <<<<Str_facing, Str_down>>>>
    /\ Len(palette) = 3
    /\ [i \in DOMAIN blocks |-> blocks[i].state] = <<0, 1, 2>>

\* C7: add_block with an empty label is refused and leaves the builder as it
\* was: no palette entry has an empty Name, and only the calls with a
\* non-empty label have stored a placement.
C7_EmptyLabelRejected ==
    /\ \A i \in DOMAIN palette : palette[i].Name # <<>>
    /\ Len(blocks) = Cardinality({i \in DOMAIN calls : calls[i].name # <<>>})

\* the tag id of a value's runtime kind (TAG_End: none)
KindId(v) == _infer_tag_id(v).id

RECURSIVE Heterogeneous(_)
\* some list in the tree holds an element whose kind is not the declared one
Heterogeneous(v) ==
    CASE v.kind = "list" ->
            \E i \in DOMAIN v.items :
                KindId(v.items[i]) # v.element_tag_id \/ Heterogeneous(v.items[i])
      [] v.kind = "compound" ->
            \E i \in DOMAIN v.entries : Heterogeneous(v.entries[i][2])
      [] OTHER -> FALSE

\* C8: a tree with a list holding an element of another kind than the declared
\* one is rejected: the writer raises and emits no file for it.
C8_HeterogeneousListRejected ==
    (pc = "done" /\ Heterogeneous(root)) => raised # "none"

StrBytes(s) == ByteLen(encode_utf8(s))

RECURSIVE AllStringsFit(_)
\* every tag name and String value of the tree encodes to at most 65535 bytes
AllStringsFit(v) ==
    CASE v.kind = "str" -> StrBytes(v.s) <= 65535
      [] v.kind = "list" -> \A i \in DOMAIN v.items : AllStringsFit(v.items[i])
      [] v.kind = "compound" ->
            \A i \in DOMAIN v.entries :
                StrBytes(v.entries[i][1]) <= 65535 /\ AllStringsFit(v.entries[i][2])
      [] OTHER -> TRUE

\* C9: the length prefix of a string is a 2-byte unsigned number, so writing a
\* string length fails only for a string of more than 65535 encoded bytes.
C9_UnsignedLengthPrefix ==
    (pc = "done" /\ raised = "struct.error(h)") => ~AllStringsFit(root)

\* C10: a call of write_nbt_file that raises leaves the destination as it
\* was: neither created nor rewritten with a part of the stream.
C10_AtomicFailure ==
    [][raised' # "none" => file' = file]_vars

\* the call failed below the root after bytes had gone to the buffer, and the
\* destination still holds its old content
C10_Witness ==
    /\ pc = "done"
    /\ raised = "struct.error(i)"
    /\ ByteLen(raw) > 4
    /\ file = <<OldContent>>

\* ---- the binary format, written down from its description: kind bytes,
\* unsigned 2-byte name lengths, 4-byte counts
FormatKind(v) ==
    CASE v.kind = "int" -> 3
      [] v.kind = "str" -> 8
      [] v.kind = "list" -> 9
      [] v.kind = "compound" -> 10

FormatU16(n) == <<Byte(n \div 256), Byte(n % 256)>>
FormatCount(n) ==
    <<Byte(n \div 16777216), Byte((n \div 65536) % 256),
      Byte((n \div 256) % 256), Byte(n % 256)>>
FormatName(k) == FormatU16(StrBytes(k)) \o encode_utf8(k)

RECURSIVE FormatCompound(_)
RECURSIVE FormatEntries(_)
\* the named tags of the entries in insertion order, back to back
FormatEntries(entries) ==
    IF entries = <<>> THEN <<>>
    ELSE LET k == Head(entries)[1]
             v == Head(entries)[2]
         IN <<Byte(FormatKind(v))>> \o FormatName(k)
            \o (IF v.kind = "compound" THEN FormatCompound(v)
                ELSE _write_payload(FormatKind(v), v).out)
            \o FormatEntries(Tail(entries))
\* a compound payload: the named tags, then one end marker
FormatCompound(v) == FormatEntries(v.entries) \o <<Byte(0)>>

\* C11: a written compound is, in insertion order, one named tag per entry
\* (kind byte of the value's own kind, length-prefixed name, payload) and then
\* exactly one end marker 0; the empty compound under the root name "" is
\* exactly the bytes 0A 00 00 00.
C11_CompoundEncoding ==
    /\ (pc = "done" /\ raised = "none") =>
          raw = <<Byte(10)>> \o FormatName(<<>>) \o FormatCompound(root)
    /\ (pc = "done" /\ root.entries = <<>>) =>
          raised = "none" /\ raw = <<Byte(10), Byte(0), Byte(0), Byte(0)>>

\* a compound of two entries, the second one a compound itself, was written
C11_Witness ==
    /\ pc = "done" /\ raised = "none"
    /\ Len(root.entries) = 2
    /\ root.entries[2][2].kind = "compound"
    /\ file # <<>> /\ file[1].data = raw

RECURSIVE FormatList(_)
RECURSIVE FormatItems(_, _)
\* the payloads of the elements in list order, nothing in between
FormatItems(id, items) ==
    IF items = <<>> THEN <<>>
    ELSE (IF id = 9 /\ Head(items).kind = "list" THEN FormatList(Head(items))
          ELSE _write_payload(id, Head(items)).out)
         \o FormatItems(id, Tail(items))
\* a list payload: declared element kind, count, element payloads
FormatList(v) ==
    <<Byte(v.element_tag_id)>> \o FormatCount(Len(v.items))
    \o FormatItems(v.element_tag_id, v.items)

RECURSIVE ListEntriesWritten(_)
\* the entries of a compound with the payload of each list entry as the
\* format lays it out
ListEntriesWritten(entries) ==
    IF entries = <<>> THEN <<>>
    ELSE LET k == Head(entries)[1]
             v == Head(entries)[2]
         IN pack_B(KindId(v)).out \o _write_string_payload(k).out
            \o (IF v.kind = "list" THEN FormatList(v)
                ELSE _write_payload(KindId(v), v).out)
            \o ListEntriesWritten(Tail(entries))

\* C12: a written list is one byte of the declared element kind, the element
\* count in 4 bytes big-endian, and the element payloads in list order with
\* no kind byte, name or end marker per element; an empty list is the kind
\* byte and 00 00 00 00.
C12_ListEncoding ==
    (pc = "done" /\ raised = "none") =>
        raw = <<Byte(10), Byte(0), Byte(0)>> \o ListEntriesWritten(root.entries)
              \o <<Byte(0)>>

\* a list of two elements was written
C12_Witness ==
    /\ pc = "done" /\ raised = "none"
    /\ \E i \in DOMAIN root.entries :
          /\ root.entries[i][2].kind = "list"
          /\ Len(root.entries[i][2].items) = 2
          /\ root.entries[i][2].element_tag_id = TAG_Int

\* C14: every add_block call appends exactly one placement at the end of the
\* list, also at a coordinate already used: the list holds one placement per
\* call, and a call leaves the earlier placements as and where they are.
C14_NoPositionDedup ==
    /\ [](Len(blocks) = Len(calls))
    /\ [][Len(calls') = Len(calls) + 1 =>
            /\ Len(blocks') = Len(blocks) + 1
            /\ SubSeq(blocks', 1, Len(blocks)) = blocks
            /\ blocks'[Len(blocks')].pos = calls'[Len(calls')].pos]_vars

\* two calls placed at the same coordinate and both placements are stored
C14_Witness ==
    /\ Len(blocks) >= 2
    /\ calls[1].pos = calls[2].pos
    /\ blocks[1].pos = blocks[2].pos

builderState ==
    <<palette, palette_index, blocks, min_x, min_y, min_z, max_x, max_y, max_z>>

\* C15: build() on a builder without placements returns size (0,0,0), an
\* empty palette and an empty placement list and leaves the builder as it is;
\* with a placement stored, every size component returned is at least 1.
C15_EmptyAndMinimalSize ==
    /\ [](\A k \in DOMAIN seen :
            IF seen[k].blocks = <<>>
            THEN seen[k].size = <<0, 0, 0>> /\ seen[k].palette = <<>>
            ELSE \A a \in 1 .. 3 : seen[k].size[a] >= 1)
    /\ [][(blocks = <<>> /\ Len(docs') = Len(docs) + 1) =>
            builderState' = builderState]_vars

\* build() was called on the empty builder and again after a placement
C15_Witness ==
    /\ Len(seen) = 2
    /\ seen[1].blocks = <<>>
    /\ seen[2].blocks # <<>>

Least(S) == CHOOSE m \in S : \A n \in S : m <= n
Greatest(S) == CHOOSE m \in S : \A n \in S : m >= n
Stored(a) == {blocks[i].pos[a] : i \in DOMAIN blocks}

\* C16: with a placement stored, the running bounds are the exact minimum and
\* maximum of the stored positions on each axis.
C16_RunningBoxExact ==
    blocks # <<>> =>
        /\ min_x = Least(Stored(1)) /\ max_x = Greatest(Stored(1))
        /\ min_y = Least(Stored(2)) /\ max_y = Greatest(Stored(2))
        /\ min_z = Least(Stored(3)) /\ max_z = Greatest(Stored(3))

\* C17: build() leaves the palette, the number and order of placements and
\* each placement's state and nbt as they are, and moves every stored
\* position by the same vector.
C17_BuildOnlyShifts ==
    [][Len(docs') = Len(docs) + 1 =>
        /\ palette' = palette
        /\ Len(blocks') = Len(blocks)
        /\ \A i \in DOMAIN blocks :
              /\ blocks'[i].state = blocks[i].state
              /\ blocks'[i].nbt = blocks[i].nbt
              /\ \A a \in 1 .. 3 : blocks'[i].pos[a] = blocks[i].pos[a] + offset'[a]
        /\ \A i, j \in DOMAIN blocks : \A a \in 1 .. 3 :
              blocks'[i].pos[a] - blocks'[j].pos[a] = blocks[i].pos[a] - blocks[j].pos[a]]_vars

\* the last call was a build() that moved placements apart from each other,
\* one of them carrying nbt
C17_Witness ==
    /\ builds_in_row >= 1
    /\ offset # <<0, 0, 0>>
    /\ \E i, j \in DOMAIN blocks :
          blocks[i].pos # blocks[j].pos /\ blocks[i].nbt # <<>>

\* C18: each placement's state is an index into the palette, and the entry
\* there has the label and the attribute set of the call that made the
\* placement.
C18_StateIndexesOwnEntry ==
    /\ Len(blocks) = Len(calls)
    /\ \A i \in DOMAIN blocks :
          /\ blocks[i].state >= 0 /\ blocks[i].state < Len(palette)
          /\ LET e == palette[blocks[i].state + 1]
             IN /\ e.Name = calls[i].name
                /\ {e.Properties[n] : n \in DOMAIN e.Properties}
                      = {calls[i].properties[n] : n \in DOMAIN calls[i].properties}

\* two placements share the second palette entry, which has two attributes
C18_Witness ==
    /\ Len(palette) >= 2
    /\ Len(palette[2].Properties) = 2
    /\ \E i, j \in DOMAIN blocks : i < j /\ blocks[i].state = 1 /\ blocks[j].state = 1

\* C19: at every build call the two builders, driven by the same calls,
\* return the same size, the same palette and the same placements (position
\* and state).
C19_BuildersEquivalent ==
    /\ Len(seen) = Len(png_seen)
    /\ \A k \in DOMAIN seen :
          /\ seen[k].size = png_seen[k].size
          /\ seen[k].palette = png_seen[k].palette
          /\ Len(seen[k].blocks) = Len(png_seen[k].blocks)
          /\ \A i \in DOMAIN seen[k].blocks :
                /\ seen[k].blocks[i].pos = png_seen[k].blocks[i].pos
                /\ seen[k].blocks[i].state = png_seen[k].blocks[i].state

====
